---- MODULE Spec2Model ----
(***************************************************************************)
(* Model of the single-item image compression engine of avic:              *)
(*   ImageCompress.compress_image in image_compression_classes.py          *)
(*   (variant "classes") and in image_compression.py (variant "legacy",    *)
(*   the one the package exports).                                         *)
(* One behaviour is one constructed ImageCompress object and one call of   *)
(* compress_image on it.  The codec (Pillow) and the filesystem are        *)
(* collaborators: their results are chosen nondeterministically.           *)
(* Resize ratios are kept in tenths (0.5 -> 5, 0.7 -> 7, 1 -> 10).         *)
(*                                                                         *)
(* The single-item video engine, VideoCompress in video_compress_class.py, *)
(* has its own specification SpecVideo: one behaviour is one constructed   *)
(* VideoCompress object, calls of update_logic and set_defaults on it and  *)
(* one call of convert_video.  ffmpeg is a collaborator.  SpecFn and       *)
(* SpecVideoFn apply the parameter functions to inputs drawn at Init.      *)
(***************************************************************************)
EXTENDS Integers, Sequences, FiniteSets, TLC

VARIABLES
    variant,        \* which source file's ImageCompress: "classes" | "legacy"
    n_attempts,     \* constructor argument n_attempts / n_attemps
    to_jpg,         \* constructor argument to_jpg
    logger,         \* TRUE when self.logger is a logger, FALSE when it is False
    pc,             \* "idle" | "loop" | "done" | "raised"
    image_path,     \* [dir, suffix] of the source file
    export_arg,     \* the export_path argument: "False" | "same" | "other"
    export_path,    \* resolved export path [dir, suffix]
    fail_dir,       \* TRUE when a fail_dir is given
    image_size,     \* st_size of the source
    image_wh,       \* <<image_w, image_h>> = img.size
    force_compress,
    size_ratio,     \* in tenths
    new_wh,         \* <<>> for (False, False), else <<new_w, new_h>>
    quality,
    attempts,
    new_image_size,
    status,         \* the status tag compress_image returns
    row,            \* the result DataFrame row, <<>> when none was built
    exc,            \* name of the exception that reached the caller, "" if none
    fs,             \* filesystem: path -> file content
    encodes,        \* number of _compress_save calls made
    saves,          \* number of Image.save calls made by the last _compress_save
    over,           \* number of attempts so far whose output exceeded AcceptSize
    readable,       \* what the decode of the source gave: "ok" | "corrupt" | "unidentified"
    last,           \* the parameters and result of the last _compress_save call
    vpc,            \* VideoCompress: "off" | "new" | "done" | "raised" | "fn"
    video_in,       \* [dir, suffix] of the source video
    video_out,      \* [dir, suffix] of the output video
    video_height,   \* meta['video']['height']
    file_size,      \* meta['file_size'], st_size of the source video
    resolution_policy,
    change_resolution,
    out_settings,   \* the keys of the out_settings dict
    video_height_out,
    keep_larger_video,
    delete_original,
    move_original,
    copy_original_if_not_converted,
    force_mp4_output,   \* <<>> while the attribute does not exist, else <<b>>
    converted,
    conv_fl_size_bytes,
    calls,          \* the _convert_with_ffmpeg calls made: [settings, ok]
    conv_size,      \* size of the file the last successful ffmpeg run wrote
    vfs,            \* filesystem of the video engine: path -> file content
    vexc,           \* name of the exception that left convert_video, "" if none
    vid_settings_utils,     \* output video_height of utils/video_utils.py
    vid_settings_legacy,    \* output video_height of video_utils.py
    path,           \* rename_dir: the parts of the path argument
    renamed,        \* rename_dir: <<>> before the call, then <<[ret, parts]>>
    overwrite,      \* MultiImageCompression: constructor argument overwrite
    mpc,            \* MultiImageCompression: "off" | "idle" | "shuffled" | "raised"
    mexc,           \* name of the exception that left _shuffle_files, "" if none
    audio_policy,   \* VideoCompress.audio_policy
    meta_audio,     \* what ffprobe gave about the audio: [stream, bit_rate, codec_name]
    video_defaults, \* VideoCompress.video_defaults: [crf, preset]
    out_values,     \* the values of out_settings: [crf, preset, ca, ba, vf]
    mvc,            \* the attributes of the MultiVideoCompress object
    tree,           \* batch run: the directory tree, tree[d] = [parent, files]
    stats_fl,       \* batch run: the stats CSV, [exists, rows]
    compress_stats, \* batch run: the rows of the DataFrame compress_files returned
    bpc,            \* batch run: "off" | "new" | "idle" | "done" | "raised"
    bexc,           \* batch run: name of the exception that left compress_files
    file_ops,       \* batch run: the kinds of file operation compress_files made
    tmp_single,     \* manga run: the temporary unzip directory's path is one component
    extracted,      \* manga run: the files unzip_file extracted, [sub, stem, suffix]
    outcomes,       \* manga run: what the image engine did with each image
    ic_stats,       \* manga run: MangaCompress._ic_stats, rows [image, status]
    unzip_files,    \* manga run: the files under the unzip directory
    dst_files,      \* manga run: the files under the compress directory, [path, data]
    error_files,    \* manga run: the files under error_dir, [path, data]
    clobbered,      \* manga run: the extracted files whose data another file overwrote
    gpc,            \* manga run: "off" | "new" | "zipped" | "raised"
    gexc            \* manga run: name of the exception that left compress_manga_images

vars == <<variant, n_attempts, to_jpg, logger, pc, image_path, export_arg, export_path,
          fail_dir, image_size, image_wh, force_compress, size_ratio, new_wh,
          quality, attempts, new_image_size, status, row, exc, fs, encodes,
          saves, over, readable, last,
          vpc, video_in, video_out, video_height, file_size, resolution_policy,
          change_resolution, out_settings, video_height_out, keep_larger_video,
          delete_original, move_original, copy_original_if_not_converted,
          force_mp4_output, converted, conv_fl_size_bytes, calls, conv_size, vfs,
          vexc, vid_settings_utils, vid_settings_legacy,
          path, renamed, overwrite, mpc, mexc,
          audio_policy, meta_audio, video_defaults, out_values, mvc,
          tree, stats_fl, compress_stats, bpc, bexc, file_ops,
          tmp_single, extracted, outcomes, ic_stats, unzip_files, dst_files,
          error_files, clobbered, gpc, gexc>>

video_vars == <<vpc, video_in, video_out, video_height, file_size, resolution_policy,
                change_resolution, out_settings, video_height_out, keep_larger_video,
                delete_original, move_original, copy_original_if_not_converted,
                force_mp4_output, converted, conv_fl_size_bytes, calls, conv_size,
                vfs, vexc, vid_settings_utils, vid_settings_legacy>>

\* the variables of rename_dir
path_vars == <<path, renamed>>

\* the variables of MultiImageCompression
multi_vars == <<overwrite, mpc, mexc>>

\* the settings values of VideoCompress and the MultiVideoCompress object
settings_vars == <<audio_policy, meta_audio, video_defaults, out_values, mvc>>

\* the variables of MultiImageCompression.compress_files over a tree
batch_vars == <<tree, stats_fl, compress_stats, bpc, bexc, file_ops>>

\* the variables of MangaCompress.compress_manga_images
manga_vars == <<tmp_single, extracted, outcomes, ic_stats, unzip_files, dst_files,
                error_files, clobbered, gpc, gexc>>

\* what neither the image engine nor the video engine touches
extra_vars == <<path_vars, multi_vars, settings_vars, batch_vars, manga_vars>>

---------------------------------------------------------------------------
(* Bounds of the model and program constants *)

MaxAttempts == 3            \* largest n_attempts handed to the constructor
MaxParts == 4               \* longest path handed to rename_dir, in parts

min_compress_size == 200000
TightenSize == 5000000
AcceptSize == 2000000
RatioStep == 100            \* size_ratio -= 10, in tenths
QualityStep == 10
LegacyAttempts == 3         \* while compress is True and attempts < 3
default_n_attempts == 3     \* n_attempts=3 in ImageCompress.__init__

Variants == {"classes", "legacy"}
Suffixes == {".jpg", ".JPG", ".jpeg", ".png"}
SourceSizes == {199999, 200000, 1500000, 10000001}
OutputSizes == {1500000, 2000000, 2000001, 5000000, 5000001, 10000001}
ImageDims == {<<800, 600>>, <<4000, 3500>>}

_compressed == "Compressed"
_not_compressed == "NOT Compressed"
_failed == "Failed"
NotStarted == "Not Started"

Dash == <<>>                \* the '-' sentinel of a result row
NoRow == <<>>
NoAttempt ==
    [quality |-> 0, size_ratio |-> 0, wh |-> <<>>, ret |-> "", size |-> 0,
     rz |-> "", s1 |-> "", s2 |-> ""]

---------------------------------------------------------------------------
(* Paths and files *)

Dirs == {"src", "out", "proc", "fail"}
Paths == [dir : Dirs, suffix : Suffixes]

Absent == [kind |-> "absent", size |-> 0]
Orig(size) == [kind |-> "orig", size |-> size]
Enc(size) == [kind |-> "enc", size |-> size]

\* Path.with_suffix
with_suffix(p, s) == [p EXCEPT !.suffix = s]

\* a lower that leaves upper-case suffixes as they are
lower_identity(s) == s

\* str.lower on a suffix
lower(s) == IF s = ".JPG" THEN ".jpg" ELSE IF s = ".MP4" THEN ".mp4" ELSE s

\* The path the caller passed as export_path ("same": the source path itself,
\* as MultiImageCompression does with overwrite=True; "other": the same file
\* name in another tree).
ExportArgPath(src, arg) == IF arg = "other" THEN [src EXCEPT !.dir = "out"] ELSE src

\* _determine_export_path / the export_path block of the legacy compress_image
determine_export_path(src, arg, tojpg) ==
    IF tojpg
    THEN (IF arg = "False" THEN with_suffix(src, ".jpg")
                           ELSE with_suffix(ExportArgPath(src, arg), ".jpg"))
    ELSE (IF arg = "False" THEN src ELSE ExportArgPath(src, arg))

\* _should_force_compress / the force_compress block of the legacy compress_image
should_force_compress(src, tojpg) ==
    tojpg /\ lower(src.suffix) \notin {".jpg", ".jpeg"}

\* Path(fail_dir).joinpath(image_path.name)
FailPath(src) == [src EXCEPT !.dir = "fail"]

---------------------------------------------------------------------------
(* Pure helpers of ImageCompress *)

Abs(x) == IF x < 0 THEN -x ELSE x

\* Python's int() of n/d: truncation toward zero
Trunc(n, d) == IF n >= 0 THEN n \div d ELSE -((-n) \div d)

\* the 'auto' branch of get_new_width_height
auto_size_ratio(w, h) ==
    IF h > 1200
    THEN (IF h > 3000 \/ w > 3000 THEN 5 ELSE 7)
    ELSE 10

\* get_new_width_height(image_w, image_h, size_ratio); ratio is <<r>> for a
\* number and <<>> for size_ratio=False with self.new_size_ratio == 'auto'.
\* Only the classes variant takes the magnitudes of the dimensions first.
get_new_width_height(v, wh, ratio) ==
    LET w == IF v = "classes" THEN Abs(wh[1]) ELSE wh[1]
        h == IF v = "classes" THEN Abs(wh[2]) ELSE wh[2]
        r == IF ratio = <<>> THEN auto_size_ratio(w, h) ELSE ratio[1]
    IN  IF r < 10
        THEN [wh |-> <<Trunc(w * r, 10), Trunc(h * r, 10)>>, size_ratio |-> r]
        ELSE [wh |-> <<>>, size_ratio |-> r]

\* get_quality with both tier boundaries on the wrong side
get_quality_inclusive(size) ==
    IF size >= 1100000
    THEN (IF size >= 10000000 THEN 70 ELSE 80)
    ELSE 90

\* get_quality with self.quality == 'auto'
get_quality(size) ==
    IF size > 1100000
    THEN (IF size > 10000000 THEN 70 ELSE 80)
    ELSE 90

\* _should_skip_compression / the skip test of the legacy compress_image
should_skip_compression(size, force) ==
    size < min_compress_size /\ ~force

\* get_size_format: <<unit index, hundredths>> of the size scaled by 1024
RECURSIVE SizeFormat(_, _, _)
SizeFormat(b, den, unit) ==
    IF b < 1024 * den \/ unit = 8
    THEN <<unit, (100 * b + den \div 2) \div den>>
    ELSE SizeFormat(b, den * 1024, unit + 1)

get_size_format(b) == SizeFormat(b, 1, 0)

\* f"{saving_diff:.1%}" as tenths of a percent, by long division (new < size)
saving_diff_str(size, new) ==
    LET d0 == size - new
        d1 == (d0 * 10) % size
        d2 == (d1 * 10) % size
        d3 == (d2 * 10) % size
        tenths == 100 * ((d0 * 10) \div size) + 10 * ((d1 * 10) \div size)
                      + ((d2 * 10) \div size)
    IN  <<IF 2 * d3 >= size THEN tenths + 1 ELSE tenths>>

\* _create_failed_stats / the failed DataFrame literals of the legacy compress_image
create_failed_stats(n) ==
    [Image_size |-> Dash, Status |-> _failed, New_size |-> Dash,
     Compress |-> Dash, Attempts |-> n]

\* _create_success_stats(image_path, result)
create_success_stats(st, size, new, n) ==
    [Image_size |-> get_size_format(size), Status |-> st,
     New_size |-> get_size_format(new),
     Compress |-> IF new = size \/ new > size THEN Dash ELSE saving_diff_str(size, new),
     Attempts |-> n]

\* needs_tighten with the boundary on the wrong side
needs_tighten_inclusive(s) == s >= TightenSize

\* needs_lower_quality with the boundary on the wrong side
needs_lower_quality_inclusive(s) == s >= AcceptSize

\* the tests of the retry loop on the size of an attempt's output
needs_tighten(s) == s > TightenSize

needs_lower_quality(s) == s > AcceptSize

\* "if new_image_size > image_size" after the loop (classes variant)
is_larger_than_original(new, size) == new > size

\* "elif new_image_size > image_size" after the loop (legacy variant)
is_larger_than_original_legacy(new, size) == new /= size /\ new > size

\* the loop tests "attempts < self.n_attempts" and "attempts < 3"
more_attempts(n, limit) == n < limit

more_attempts_legacy(n, limit) == n < LegacyAttempts

---------------------------------------------------------------------------
(* Collaborators: Pillow and shutil *)

DecodeResults == {"ok", "corrupt"}          \* _check_image_corruption
OpenResults == {"ok", "unidentified"}       \* Image.open before the retry loop
ResizeResults == {"ok", "OSError"}          \* img.resize with valid dimensions
SaveResults ==
    {[r |-> "ok", size |-> s] : s \in OutputSizes}
        \cup {[r |-> "OSError", size |-> 0], [r |-> "Error", size |-> 0]}
ExportArgs == {"False", "same", "other"}

\* Image.resize rejects a width or height below 1 with ValueError
resize(wh, rz) == IF wh[1] < 1 \/ wh[2] < 1 THEN "ValueError" ELSE rz

\* a copy that removes its source, as shutil.move does
copy_moves(f, a, b) == [f EXCEPT ![b] = f[a], ![a] = Absent]

\* shutil.copy(a, b): SameFileError when both name the same file
copy(f, a, b) == [f EXCEPT ![b] = f[a]]

\* shutil.move(a, b)
move(f, a, b) == IF a = b THEN f ELSE [f EXCEPT ![b] = f[a], ![a] = Absent]

\* handle_failed_image that copies the source instead of moving it
handle_failed_image_copy(f, src, fd) == IF fd THEN copy(f, src, FailPath(src)) ELSE f

\* _handle_failed_image / the fail_dir block of the legacy compress_image
handle_failed_image(f, src, fd) == IF fd THEN move(f, src, FailPath(src)) ELSE f

\* what one _compress_save call did: ret is "size" (the st_size it returned),
\* "False" or "raise"; rz, s1 and s2 are the results of the resize, of the save
\* and of the save after convert("RGB") ("" when the call was not made)
Cs(ret, size, e, n, rz, s1, s2) ==
    [ret |-> ret, size |-> size, exc |-> e, saves |-> n, rz |-> rz, s1 |-> s1, s2 |-> s2]

\* the save of _compress_save and its fallback after an OSError:
\* convert("RGB") and one more save
save_with_fallback(v, rz, s1, s2) ==
    IF s1.r = "ok" THEN Cs("size", s1.size, "", 1, rz, "ok", "")
    ELSE IF s1.r = "OSError"
    THEN (IF s2.r = "ok" THEN Cs("size", s2.size, "", 2, rz, "OSError", "ok")
          ELSE IF s2.r = "OSError" THEN Cs("False", 0, "", 2, rz, "OSError", "OSError")
          ELSE IF v = "classes" THEN Cs("False", 0, "", 2, rz, "OSError", "Error")
          ELSE Cs("raise", 0, "Error", 2, rz, "OSError", "Error"))
    ELSE IF v = "classes" THEN Cs("False", 0, "", 1, rz, "Error", "")
    ELSE Cs("raise", 0, "Error", 1, rz, "Error", "")

\* the handler of an OSError raised by img.resize: the legacy variant calls
\* self.logger.warning unguarded, the classes variant calls self.log_warning
resize_failed(v, lg) ==
    IF v = "legacy" /\ ~lg
    THEN Cs("raise", 0, "AttributeError", 0, "OSError", "", "")
    ELSE Cs("False", 0, "", 0, "OSError", "", "")

\* _compress_save(img, width, height, quality, exp_fl)
compress_save(v, lg, wh, rz, s1, s2) ==
    IF wh = <<>> THEN save_with_fallback(v, "", s1, s2)
    ELSE IF resize(wh, rz) = "ValueError"
    THEN Cs("raise", 0, "ValueError", 0, "ValueError", "", "")
    ELSE IF resize(wh, rz) = "OSError" THEN resize_failed(v, lg)
    ELSE save_with_fallback(v, "ok", s1, s2)

\* every result one _compress_save call can have, over the collaborators' results
EncodeResults(v, lg, wh) ==
    {compress_save(v, lg, wh, rz, s1, s2) :
        rz \in ResizeResults, s1 \in SaveResults, s2 \in SaveResults}

---------------------------------------------------------------------------
(* The video engine *)

VideoDirs == {"in", "out", "proc"}
VideoSuffixes == {".mp4", ".MP4", ".avi"}
VideoPaths == [dir : VideoDirs, suffix : VideoSuffixes]

\* no VideoCompress object exists
VideoOff ==
    /\ vpc = "off"
    /\ video_in = [dir |-> "in", suffix |-> ".mp4"]
    /\ video_out = [dir |-> "out", suffix |-> ".mp4"]
    /\ video_height = 0
    /\ file_size = 0
    /\ resolution_policy = "auto"
    /\ change_resolution = FALSE
    /\ out_settings = {}
    /\ video_height_out = 0
    /\ keep_larger_video = FALSE
    /\ delete_original = FALSE
    /\ move_original = FALSE
    /\ copy_original_if_not_converted = FALSE
    /\ force_mp4_output = <<>>
    /\ converted = FALSE
    /\ conv_fl_size_bytes = 0
    /\ calls = <<>>
    /\ conv_size = 0
    /\ vfs = [p \in VideoPaths |-> Absent]
    /\ vexc = ""
    /\ vid_settings_utils = 0
    /\ vid_settings_legacy = 0

\* rename_dir has not been called
PathOff ==
    /\ path = <<>>
    /\ renamed = <<>>

\* no MultiImageCompression object exists
MultiOff ==
    /\ overwrite = FALSE
    /\ mpc = "off"
    /\ mexc = ""

\* the settings values are not modelled, no MultiVideoCompress object exists
SettingsOff ==
    /\ audio_policy = "auto"
    /\ meta_audio = [stream |-> FALSE, bit_rate |-> <<>>, codec_name |-> ""]
    /\ video_defaults = [crf |-> 0, preset |-> ""]
    /\ out_values = [crf |-> 0, preset |-> "", ca |-> "", ba |-> "", vf |-> 0]
    /\ mvc = [video_quality |-> "", audio_policy |-> "", resolution_policy |-> "",
              force_mp4_output |-> <<>>, keep_larger_video |-> <<>>]

\* no batch run exists
BatchOff ==
    /\ tree = <<>>
    /\ stats_fl = [exists |-> FALSE, rows |-> <<>>]
    /\ compress_stats = <<>>
    /\ bpc = "off"
    /\ bexc = ""
    /\ file_ops = {}

\* no manga run exists
MangaOff ==
    /\ tmp_single = TRUE
    /\ extracted = {}
    /\ outcomes = <<>>
    /\ ic_stats = {}
    /\ unzip_files = {}
    /\ dst_files = {}
    /\ error_files = {}
    /\ clobbered = {}
    /\ gpc = "off"
    /\ gexc = ""

ExtraOff ==
    /\ PathOff
    /\ MultiOff
    /\ SettingsOff
    /\ BatchOff
    /\ MangaOff

---------------------------------------------------------------------------
(* State after construction *)

Init ==
    /\ variant \in Variants
    /\ n_attempts \in 1..MaxAttempts
    /\ to_jpg \in BOOLEAN
    /\ logger \in BOOLEAN
    /\ pc = "idle"
    /\ image_path = [dir |-> "src", suffix |-> ".jpg"]
    /\ export_arg = "False"
    /\ export_path = [dir |-> "src", suffix |-> ".jpg"]
    /\ fail_dir = FALSE
    /\ image_size = 0
    /\ image_wh = <<>>
    /\ force_compress = FALSE
    /\ size_ratio = 0
    /\ new_wh = <<>>
    /\ quality = 0
    /\ attempts = 0
    /\ new_image_size = 0
    /\ status = NotStarted
    /\ row = NoRow
    /\ exc = ""
    /\ fs = [p \in Paths |-> Absent]
    /\ encodes = 0
    /\ saves = 0
    /\ over = 0
    /\ readable = ""
    /\ last = NoAttempt
    /\ VideoOff
    /\ ExtraOff

Config == <<variant, n_attempts, to_jpg, logger>>
Inputs == <<image_path, export_arg, export_path, fail_dir, image_size, image_wh,
            force_compress, readable>>

\* the call returns (results, status)
Return(st, rw, sz, f) ==
    /\ pc' = "done" /\ status' = st /\ row' = rw /\ new_image_size' = sz
    /\ fs' = f /\ exc' = ""

\* an exception leaves compress_image
Raise(e, f) ==
    /\ pc' = "raised" /\ exc' = e /\ fs' = f
    /\ UNCHANGED <<status, row, new_image_size>>

\* the arguments of the call and the file they name
Call(src, arg, fd, size, wh, rd) ==
    /\ image_path' = src
    /\ export_arg' = arg
    /\ export_path' = determine_export_path(src, arg, to_jpg)
    /\ fail_dir' = fd
    /\ image_size' = size
    /\ image_wh' = wh
    /\ force_compress' = should_force_compress(src, to_jpg)
    /\ readable' = rd

---------------------------------------------------------------------------
(* compress_image up to the first iteration of the retry loop *)

\* image_compression_classes.py
compress_image ==
    /\ pc = "idle" /\ variant = "classes"
    /\ \E sfx \in Suffixes, arg \in ExportArgs, fd \in BOOLEAN, size \in SourceSizes,
          wh \in ImageDims, decode \in DecodeResults, open \in OpenResults :
        LET src == [dir |-> "src", suffix |-> sfx]
            exp == determine_export_path(src, arg, to_jpg)
            fs0 == [p \in Paths |-> IF p = src THEN Orig(size) ELSE Absent]
            force == should_force_compress(src, to_jpg)
            seed == get_new_width_height(variant, wh, <<>>)
        IN  /\ Call(src, arg, fd, size, wh,
                    IF decode = "corrupt" THEN "corrupt" ELSE open)
            /\ IF decode = "corrupt"
               THEN /\ Return(_failed, create_failed_stats(0), 0,
                              handle_failed_image(fs0, src, fd))
                    /\ UNCHANGED <<size_ratio, new_wh, quality>>
               ELSE IF open = "unidentified"
               THEN /\ Return(_failed, create_failed_stats(0), 0, fs0)
                    /\ UNCHANGED <<size_ratio, new_wh, quality>>
               ELSE IF should_skip_compression(size, force)
               THEN /\ IF src = exp
                       THEN Raise("SameFileError", fs0)
                       ELSE Return(_not_compressed,
                                   create_success_stats(_not_compressed, size, size, 0),
                                   size, copy(fs0, src, exp))
                    /\ UNCHANGED <<size_ratio, new_wh, quality>>
               ELSE /\ pc' = "loop"
                    /\ size_ratio' = seed.size_ratio
                    /\ new_wh' = seed.wh
                    /\ quality' = get_quality(size)
                    /\ fs' = fs0
                    /\ UNCHANGED <<status, row, exc, new_image_size>>
    /\ UNCHANGED <<attempts, encodes, saves, over, last>>
    /\ UNCHANGED Config
    /\ UNCHANGED video_vars
    /\ UNCHANGED extra_vars

\* image_compression.py
compress_image_legacy ==
    /\ pc = "idle" /\ variant = "legacy"
    /\ \E sfx \in Suffixes, arg \in ExportArgs, fd \in BOOLEAN, size \in SourceSizes,
          wh \in ImageDims, decode \in DecodeResults, open \in OpenResults :
        LET src == [dir |-> "src", suffix |-> sfx]
            exp == determine_export_path(src, arg, to_jpg)
            fs0 == [p \in Paths |-> IF p = src THEN Orig(size) ELSE Absent]
            force == should_force_compress(src, to_jpg)
            seed == get_new_width_height(variant, wh, <<>>)
        IN  /\ Call(src, arg, fd, size, wh,
                    IF decode = "corrupt" THEN "corrupt" ELSE open)
            /\ IF decode = "corrupt"
               THEN /\ Return(_failed, create_failed_stats(0), 0,
                              handle_failed_image(fs0, src, fd))
                    /\ UNCHANGED <<size_ratio, new_wh, quality>>
               ELSE IF open = "unidentified"
               THEN /\ Return(NotStarted, create_failed_stats(0), 0, fs0)
                    /\ UNCHANGED <<size_ratio, new_wh, quality>>
               ELSE /\ size_ratio' = seed.size_ratio
                    /\ new_wh' = seed.wh
                    /\ quality' = get_quality(size)
                    /\ IF should_skip_compression(size, force)
                       THEN IF src = exp
                            THEN Raise("SameFileError", fs0)
                            ELSE Return(_not_compressed,
                                        create_success_stats(_not_compressed, size, size, 0),
                                        size, copy(fs0, src, exp))
                       ELSE /\ pc' = "loop"
                            /\ fs' = fs0
                            /\ UNCHANGED <<status, row, exc, new_image_size>>
    /\ UNCHANGED <<attempts, encodes, saves, over, last>>
    /\ UNCHANGED Config
    /\ UNCHANGED video_vars
    /\ UNCHANGED extra_vars

---------------------------------------------------------------------------
(* One iteration of the retry loop, and what follows the loop when it ends *)

\* next_params that forgets "quality -= 10" in the tighten branch
next_params_keep_quality(v, wh, ratio, nwh, q, s) ==
    IF needs_tighten(s)
    THEN LET n == get_new_width_height(v, wh, <<ratio - RatioStep>>)
         IN  [size_ratio |-> n.size_ratio, wh |-> n.wh, quality |-> q]
    ELSE IF needs_lower_quality(s)
    THEN [size_ratio |-> ratio, wh |-> nwh, quality |-> q - QualityStep]
    ELSE [size_ratio |-> ratio, wh |-> nwh, quality |-> q]

\* the parameters of the next attempt after an attempt of output size s
next_params(v, wh, ratio, nwh, q, s) ==
    IF needs_tighten(s)
    THEN LET n == get_new_width_height(v, wh, <<ratio - RatioStep>>)
         IN  [size_ratio |-> n.size_ratio, wh |-> n.wh, quality |-> q - QualityStep]
    ELSE IF needs_lower_quality(s)
    THEN [size_ratio |-> ratio, wh |-> nwh, quality |-> q - QualityStep]
    ELSE [size_ratio |-> ratio, wh |-> nwh, quality |-> q]

\* the loop goes on after an attempt of output size s, the n-th one
loop_continues(s, n, limit) == needs_lower_quality(s) /\ more_attempts(n, limit)

loop_continues_legacy(s, n, limit) ==
    needs_lower_quality(s) /\ more_attempts_legacy(n, limit)

LogEntry(cs) ==
    [quality |-> quality, size_ratio |-> size_ratio, wh |-> new_wh,
     ret |-> cs.ret, size |-> cs.size, rz |-> cs.rz, s1 |-> cs.s1, s2 |-> cs.s2]

\* the ghost counters of one _compress_save call
Encode(cs) ==
    /\ attempts' = attempts + 1
    /\ encodes' = encodes + 1
    /\ saves' = cs.saves
    /\ last' = LogEntry(cs)
    /\ over' = IF cs.ret = "size" /\ cs.size > AcceptSize THEN over + 1 ELSE over

\* image_compression_classes.py: _attempt_compression_with_retry, one
\* iteration of "while attempts < self.n_attempts", and the rest of
\* compress_image when the loop ends with it
attempt_compression_with_retry ==
    /\ pc = "loop" /\ variant = "classes"
    /\ more_attempts(attempts, n_attempts)
    /\ \E cs \in EncodeResults(variant, logger, new_wh) :
        LET n == attempts + 1
            s == cs.size
            fs1 == IF cs.ret = "size" THEN [fs EXCEPT ![export_path] = Enc(s)] ELSE fs
            nxt == next_params(variant, image_wh, size_ratio, new_wh, quality, s)
        IN  /\ Encode(cs)
            /\ IF cs.ret = "raise"
               THEN /\ Raise(cs.exc, fs1)
                    /\ UNCHANGED <<size_ratio, new_wh, quality>>
               ELSE IF cs.ret = "False"
               THEN /\ Return(_failed,
                              create_success_stats(_failed, image_size, image_size, n),
                              image_size, fs1)
                    /\ UNCHANGED <<size_ratio, new_wh, quality>>
               ELSE /\ size_ratio' = nxt.size_ratio
                    /\ new_wh' = nxt.wh
                    /\ quality' = nxt.quality
                    /\ IF loop_continues(s, n, n_attempts)
                       THEN /\ pc' = "loop"
                            /\ new_image_size' = s
                            /\ fs' = fs1
                            /\ UNCHANGED <<status, row, exc>>
                       ELSE IF is_larger_than_original(s, image_size)
                       THEN IF image_path = export_path
                            THEN Raise("SameFileError", fs1)
                            ELSE Return(_not_compressed,
                                        create_success_stats(_not_compressed, image_size,
                                                             image_size, n),
                                        image_size, copy(fs1, image_path, export_path))
                       ELSE Return(_compressed,
                                   create_success_stats(_compressed, image_size, s, n),
                                   s, fs1)
    /\ UNCHANGED Config
    /\ UNCHANGED video_vars
    /\ UNCHANGED extra_vars
    /\ UNCHANGED Inputs

\* image_compression.py: one iteration of "while compress is True and
\* attempts < 3" in compress_image, and the rest of compress_image when the
\* loop ends with it
attempt_compression_legacy ==
    /\ pc = "loop" /\ variant = "legacy"
    /\ more_attempts_legacy(attempts, n_attempts)
    /\ \E cs \in EncodeResults(variant, logger, new_wh) :
        LET n == attempts + 1
            s == cs.size
            fs1 == IF cs.ret = "size" THEN [fs EXCEPT ![export_path] = Enc(s)] ELSE fs
            nxt == next_params(variant, image_wh, size_ratio, new_wh, quality, s)
        IN  /\ Encode(cs)
            /\ IF cs.ret = "raise"
               THEN /\ Raise(cs.exc, fs1)
                    /\ UNCHANGED <<size_ratio, new_wh, quality>>
               ELSE IF cs.ret = "False"
               THEN /\ Return(_failed,
                              create_success_stats(_failed, image_size, image_size, n),
                              image_size, fs1)
                    /\ UNCHANGED <<size_ratio, new_wh, quality>>
               ELSE /\ size_ratio' = nxt.size_ratio
                    /\ new_wh' = nxt.wh
                    /\ quality' = nxt.quality
                    /\ IF loop_continues_legacy(s, n, n_attempts)
                       THEN /\ pc' = "loop"
                            /\ new_image_size' = s
                            /\ status' = _compressed
                            /\ fs' = fs1
                            /\ UNCHANGED <<row, exc>>
                       ELSE IF is_larger_than_original_legacy(s, image_size)
                       THEN IF image_path = export_path
                            THEN /\ Raise("SameFileError", fs1)
                            ELSE Return(_compressed,
                                        create_success_stats(_compressed, image_size, s, n),
                                        s, copy(fs1, image_path, export_path))
                       ELSE Return(_compressed,
                                   create_success_stats(_compressed, image_size, s, n),
                                   s, fs1)
    /\ UNCHANGED Config
    /\ UNCHANGED video_vars
    /\ UNCHANGED extra_vars
    /\ UNCHANGED Inputs

Next ==
    \/ compress_image
    \/ compress_image_legacy
    \/ attempt_compression_with_retry
    \/ attempt_compression_legacy

Spec == Init /\ [][Next]_vars

---------------------------------------------------------------------------
(* The parameter functions on their own: get_new_width_height and get_quality
   called on an ImageCompress with new_size_ratio and quality left at 'auto' *)

FnWidths == {800, 1200, 1201, 3000, 3001, 4000}
FnHeights == {600, 1200, 1201, 3000, 3001, 4000}
FnSizes == {0, 1100000, 1100001, 10000000, 10000001, 20000000}

FnInit ==
    /\ variant \in Variants
    /\ n_attempts = 1
    /\ to_jpg = FALSE
    /\ logger = FALSE
    /\ pc = "fn"
    /\ image_path = [dir |-> "src", suffix |-> ".jpg"]
    /\ export_arg = "False"
    /\ export_path = [dir |-> "src", suffix |-> ".jpg"]
    /\ fail_dir = FALSE
    /\ image_size \in FnSizes
    /\ image_wh \in FnWidths \X FnHeights
    /\ force_compress = FALSE
    /\ size_ratio = 0
    /\ new_wh = <<>>
    /\ quality = 0
    /\ attempts = 0
    /\ new_image_size = 0
    /\ status = NotStarted
    /\ row = NoRow
    /\ exc = ""
    /\ fs = [p \in Paths |-> Absent]
    /\ encodes = 0
    /\ saves = 0
    /\ over = 0
    /\ readable = ""
    /\ last = NoAttempt
    /\ VideoOff
    /\ ExtraOff

\* new_w, new_h, size_ratio = self.get_new_width_height(image_w, image_h)
call_get_new_width_height ==
    /\ pc = "fn"
    /\ LET r == get_new_width_height(variant, image_wh, <<>>)
       IN  /\ size_ratio' = r.size_ratio
           /\ new_wh' = r.wh
    /\ pc' = "fn_ratio"
    /\ UNCHANGED <<quality, attempts, new_image_size, status, row, exc, fs,
                   encodes, saves, over, last>>
    /\ UNCHANGED Config
    /\ UNCHANGED video_vars
    /\ UNCHANGED extra_vars
    /\ UNCHANGED Inputs

\* quality = self.get_quality(image_size)
call_get_quality ==
    /\ pc = "fn_ratio"
    /\ quality' = get_quality(image_size)
    /\ pc' = "fn_done"
    /\ UNCHANGED <<size_ratio, new_wh, attempts, new_image_size, status, row, exc,
                   fs, encodes, saves, over, last>>
    /\ UNCHANGED Config
    /\ UNCHANGED video_vars
    /\ UNCHANGED extra_vars
    /\ UNCHANGED Inputs

FnNext ==
    \/ call_get_new_width_height
    \/ call_get_quality

SpecFn == FnInit /\ [][FnNext]_vars

---------------------------------------------------------------------------
(* VideoCompress: construction, update_logic, set_defaults, convert_video *)

\* no ImageCompress object exists
ImageOff ==
    /\ variant = "classes"
    /\ n_attempts = 1
    /\ to_jpg = FALSE
    /\ logger = FALSE
    /\ pc = "off"
    /\ image_path = [dir |-> "src", suffix |-> ".jpg"]
    /\ export_arg = "False"
    /\ export_path = [dir |-> "src", suffix |-> ".jpg"]
    /\ fail_dir = FALSE
    /\ image_size = 0
    /\ image_wh = <<>>
    /\ force_compress = FALSE
    /\ size_ratio = 0
    /\ new_wh = <<>>
    /\ quality = 0
    /\ attempts = 0
    /\ new_image_size = 0
    /\ status = NotStarted
    /\ row = NoRow
    /\ exc = ""
    /\ fs = [p \in Paths |-> Absent]
    /\ encodes = 0
    /\ saves = 0
    /\ over = 0
    /\ readable = ""
    /\ last = NoAttempt

image_vars == <<variant, n_attempts, to_jpg, logger, pc, image_path, export_arg,
                export_path, fail_dir, image_size, image_wh, force_compress,
                size_ratio, new_wh, quality, attempts, new_image_size, status, row,
                exc, fs, encodes, saves, over, readable, last>>

Policies == {"auto", "keep", "force_720", "force_480"}
VideoHeights == {360, 1080}
VideoFileSize == 1000
ConvertedSizes == {VideoFileSize - 1, VideoFileSize, VideoFileSize + 1}
FfmpegResults == {"ok", "Error"}
OptBool == {<<>>, <<TRUE>>, <<FALSE>>}      \* None, True, False

\* the resolution rules of _set_video_settings: convert_to
set_video_settings(policy, height) ==
    IF policy = "keep" THEN height
    ELSE IF policy = "force_720" THEN 720
    ELSE IF policy = "force_480" THEN 480
    ELSE IF height >= 1080 THEN 720
    ELSE IF height >= 480 THEN 480
    ELSE height

\* _set_output_settings of utils/video_utils.py: convert_to
_set_output_settings(height) ==
    IF height >= 1080 THEN 720
    ELSE IF height >= 480 THEN 480
    ELSE height

\* set_output_settings of video_utils.py: convert_to
set_output_settings(height) ==
    IF height = 1080 THEN 720
    ELSE IF height >= 480 THEN 480
    ELSE height

\* the keys of out_settings after VideoCompress._set_output_settings (the
\* audio keys are left out)
OutputSettings(chres) ==
    {"c:v", "preset", "crf", "x264-params"} \cup (IF chres THEN {"vf"} ELSE {})

\* VideoCompress.__init__ has returned: the logic flags are False,
\* force_mp4_output does not exist, the policy is 'auto', and
\* _set_output_settings has run
VideoInit ==
    /\ ImageOff
    /\ vpc = "new"
    /\ video_in \in [dir : {"in"}, suffix : VideoSuffixes]
    /\ video_out \in [dir : {"in", "out"}, suffix : {".mp4"}]
    /\ video_height \in VideoHeights
    /\ file_size = VideoFileSize
    /\ resolution_policy = "auto"
    /\ change_resolution \in BOOLEAN
    /\ out_settings = OutputSettings(change_resolution)
    /\ video_height_out = set_video_settings("auto", video_height)
    /\ keep_larger_video = FALSE
    /\ delete_original = FALSE
    /\ move_original = FALSE
    /\ copy_original_if_not_converted = FALSE
    /\ force_mp4_output = <<>>
    /\ converted = FALSE
    /\ conv_fl_size_bytes = 0
    /\ calls = <<>>
    /\ conv_size = 0
    /\ vfs = [p \in VideoPaths |-> IF p = video_in THEN Orig(VideoFileSize) ELSE Absent]
    /\ vexc = ""
    /\ vid_settings_utils = 0
    /\ vid_settings_legacy = 0
    /\ ExtraOff

\* update_logic(keep_larger_video, delete_original,
\*              copy_original_if_not_converted, proccessed_folder, force_mp4_output)
update_logic ==
    /\ vpc = "new"
    /\ \E k \in OptBool, d \in OptBool, c \in OptBool, pf \in BOOLEAN, f \in BOOLEAN :
        /\ keep_larger_video' = IF k = <<>> THEN keep_larger_video ELSE k[1]
        /\ delete_original' = IF d = <<>> THEN delete_original ELSE d[1]
        /\ copy_original_if_not_converted'
              = IF c = <<>> THEN copy_original_if_not_converted ELSE c[1]
        /\ move_original' = (pf \/ move_original)
        /\ force_mp4_output' = <<f>>
    /\ UNCHANGED <<vpc, video_in, video_out, video_height, file_size, resolution_policy,
                   change_resolution, out_settings, video_height_out, converted,
                   conv_fl_size_bytes, calls, conv_size, vfs, vexc,
                   vid_settings_utils, vid_settings_legacy>>
    /\ UNCHANGED image_vars
    /\ UNCHANGED extra_vars

\* set_defaults(video_quality, audio_policy, resolution_policy): only the
\* attributes are assigned, out_settings is not rebuilt
set_defaults ==
    /\ vpc = "new"
    /\ \E policy \in Policies : resolution_policy' = policy
    /\ UNCHANGED <<vpc, video_in, video_out, video_height, file_size,
                   change_resolution, out_settings, video_height_out,
                   keep_larger_video, delete_original, move_original,
                   copy_original_if_not_converted, force_mp4_output, converted,
                   conv_fl_size_bytes, calls, conv_size, vfs, vexc,
                   vid_settings_utils, vid_settings_legacy>>
    /\ UNCHANGED image_vars
    /\ UNCHANGED extra_vars

\* _convert_with_ffmpeg: True, or False on ffmpeg.Error; ffmpeg refuses an
\* output that is its input
convert_with_ffmpeg(r) == r = "ok" /\ video_in /= video_out

\* _check_logic on filesystem f: the filesystem it leaves and the exception
\* it raised ("" if none)
check_logic(f) ==
    LET larger == ~keep_larger_video /\ f[video_out].size > file_size
        unset == larger /\ force_mp4_output = <<>>
        keep_mp4 == /\ larger
                    /\ force_mp4_output = <<TRUE>>
                    /\ lower(video_in.suffix) /= ".mp4"
        remove == larger /\ ~keep_mp4
        f1 == IF remove THEN [f EXCEPT ![video_out] = Absent] ELSE f
        restore == remove /\ copy_original_if_not_converted
        target == with_suffix(video_out, video_in.suffix)
        use_copy == move_original \/ ~delete_original
        same_file == restore /\ use_copy /\ target = video_in
        f2 == IF ~restore THEN f1
              ELSE IF use_copy THEN copy(f1, video_in, target)
              ELSE move(f1, video_in, target)
        converted_file_kept == ~remove \/ restore
        dest == [video_in EXCEPT !.dir = "proc"]
        f3 == IF converted_file_kept /\ move_original
              THEN (IF delete_original THEN move(f2, video_in, dest)
                                       ELSE copy(f2, video_in, dest))
              ELSE f2
        f4 == IF converted_file_kept /\ delete_original /\ f3[video_in] /= Absent
              THEN [f3 EXCEPT ![video_in] = Absent]
              ELSE f3
    IN  IF unset THEN [fs |-> f, exc |-> "AttributeError"]
        ELSE IF same_file THEN [fs |-> f1, exc |-> "SameFileError"]
        ELSE [fs |-> f4, exc |-> ""]

\* the retry test of convert_video
retry_without_scaling(ok, settings) == ~ok /\ "v:f" \in settings

convert_video ==
    /\ vpc = "new"
    /\ \E r1 \in FfmpegResults, r2 \in FfmpegResults, size \in ConvertedSizes :
        LET ok1 == convert_with_ffmpeg(r1)
            retry == retry_without_scaling(ok1, out_settings)
            settings2 == IF retry THEN out_settings \ {"v:f"} ELSE out_settings
            ok2 == IF retry THEN convert_with_ffmpeg(r2) ELSE ok1
            first == [settings |-> out_settings, ok |-> ok1]
            second == [settings |-> settings2, ok |-> ok2]
            f1 == IF ok2 THEN [vfs EXCEPT ![video_out] = Enc(size)] ELSE vfs
            cl == check_logic(f1)
        IN  /\ calls' = IF retry THEN <<first, second>> ELSE <<first>>
            /\ out_settings' = settings2
            /\ converted' = ok2
            /\ conv_size' = IF ok2 THEN size ELSE conv_size
            /\ IF ~ok2
               THEN /\ vpc' = "done" /\ vfs' = f1 /\ vexc' = ""
                    /\ UNCHANGED conv_fl_size_bytes
               ELSE IF cl.exc /= ""
               THEN /\ vpc' = "raised" /\ vfs' = cl.fs /\ vexc' = cl.exc
                    /\ UNCHANGED conv_fl_size_bytes
               ELSE IF cl.fs[video_out] = Absent
               THEN /\ vpc' = "raised" /\ vfs' = cl.fs /\ vexc' = "FileNotFoundError"
                    /\ UNCHANGED conv_fl_size_bytes
               ELSE /\ vpc' = "done" /\ vfs' = cl.fs /\ vexc' = ""
                    /\ conv_fl_size_bytes' = cl.fs[video_out].size
    /\ UNCHANGED <<video_in, video_out, video_height, file_size, resolution_policy,
                   change_resolution, video_height_out, keep_larger_video,
                   delete_original, move_original, copy_original_if_not_converted,
                   force_mp4_output, vid_settings_utils, vid_settings_legacy>>
    /\ UNCHANGED image_vars
    /\ UNCHANGED extra_vars

VideoNext ==
    \/ update_logic
    \/ set_defaults
    \/ convert_video

SpecVideo == VideoInit /\ [][VideoNext]_vars

---------------------------------------------------------------------------
(* The target-height rules on their own: _set_video_settings of a
   VideoCompress whose resolution_policy was chosen, and the two
   set_output_settings helpers, applied to the same source height *)

VideoFnHeights == {240, 479, 480, 720, 1079, 1080, 1440, 2160}

VideoFnInit ==
    /\ ImageOff
    /\ vpc = "fn"
    /\ video_in = [dir |-> "in", suffix |-> ".mp4"]
    /\ video_out = [dir |-> "out", suffix |-> ".mp4"]
    /\ video_height \in VideoFnHeights
    /\ file_size = VideoFileSize
    /\ resolution_policy \in Policies
    /\ change_resolution = TRUE
    /\ out_settings = {}
    /\ video_height_out = 0
    /\ keep_larger_video = FALSE
    /\ delete_original = FALSE
    /\ move_original = FALSE
    /\ copy_original_if_not_converted = FALSE
    /\ force_mp4_output = <<>>
    /\ converted = FALSE
    /\ conv_fl_size_bytes = 0
    /\ calls = <<>>
    /\ conv_size = 0
    /\ vfs = [p \in VideoPaths |-> Absent]
    /\ vexc = ""
    /\ vid_settings_utils = 0
    /\ vid_settings_legacy = 0
    /\ ExtraOff

\* self._set_video_settings()
call_set_video_settings ==
    /\ vpc = "fn" /\ video_height_out = 0
    /\ video_height_out' = set_video_settings(resolution_policy, video_height)
    /\ out_settings' = OutputSettings(change_resolution)
    /\ UNCHANGED <<vpc, video_in, video_out, video_height, file_size, resolution_policy,
                   change_resolution, keep_larger_video, delete_original,
                   move_original, copy_original_if_not_converted, force_mp4_output,
                   converted, conv_fl_size_bytes, calls, conv_size, vfs, vexc,
                   vid_settings_utils, vid_settings_legacy>>
    /\ UNCHANGED image_vars
    /\ UNCHANGED extra_vars

\* utils/video_utils.py: vid_settings = _set_output_settings(meta, ...)
call_utils_set_output_settings ==
    /\ vpc = "fn" /\ vid_settings_utils = 0
    /\ vid_settings_utils' = _set_output_settings(video_height)
    /\ UNCHANGED <<vpc, video_in, video_out, video_height, file_size, resolution_policy,
                   change_resolution, out_settings, video_height_out,
                   keep_larger_video, delete_original, move_original,
                   copy_original_if_not_converted, force_mp4_output, converted,
                   conv_fl_size_bytes, calls, conv_size, vfs, vexc,
                   vid_settings_legacy>>
    /\ UNCHANGED image_vars
    /\ UNCHANGED extra_vars

\* video_utils.py: vid_settings = set_output_settings(meta, ...)
call_set_output_settings ==
    /\ vpc = "fn" /\ vid_settings_legacy = 0
    /\ vid_settings_legacy' = set_output_settings(video_height)
    /\ UNCHANGED <<vpc, video_in, video_out, video_height, file_size, resolution_policy,
                   change_resolution, out_settings, video_height_out,
                   keep_larger_video, delete_original, move_original,
                   copy_original_if_not_converted, force_mp4_output, converted,
                   conv_fl_size_bytes, calls, conv_size, vfs, vexc,
                   vid_settings_utils>>
    /\ UNCHANGED image_vars
    /\ UNCHANGED extra_vars

VideoFnNext ==
    \/ call_set_video_settings
    \/ call_utils_set_output_settings
    \/ call_set_output_settings

SpecVideoFn == VideoFnInit /\ [][VideoFnNext]_vars

---------------------------------------------------------------------------
(* rename_dir of utils/file_utils.py (utils.py has the same body), called as
   rename_dir(path, starting_dir, compress_dir) *)

PartNames == {"images", "2020", "image.jpg"}
starting_dir == "images"
compress_dir == "compressed"

\* list.index(src): the first position holding src, 0 when there is none
RECURSIVE index(_, _, _)
index(parts, src, i) ==
    IF i > Len(parts) THEN 0
    ELSE IF parts[i] = src THEN i
    ELSE index(parts, src, i + 1)

\* parts[parts.index(src)] = dst; return Path(*parts)
rename_dir(parts, src, dst) ==
    LET i == index(parts, src, 1)
    IN  IF i = 0
        THEN [ret |-> "ValueError", parts |-> parts]
        ELSE [ret |-> "path", parts |-> [parts EXCEPT ![i] = dst]]

PathInit ==
    /\ ImageOff
    /\ VideoOff
    /\ MultiOff
    /\ SettingsOff
    /\ BatchOff
    /\ MangaOff
    /\ path \in UNION {[1..n -> PartNames] : n \in 1..MaxParts}
    /\ renamed = <<>>

call_rename_dir ==
    /\ renamed = <<>>
    /\ renamed' = <<rename_dir(path, starting_dir, compress_dir)>>
    /\ UNCHANGED path
    /\ UNCHANGED image_vars
    /\ UNCHANGED video_vars
    /\ UNCHANGED multi_vars
    /\ UNCHANGED settings_vars
    /\ UNCHANGED <<batch_vars, manga_vars>>

PathNext ==
    \/ call_rename_dir

SpecPath == PathInit /\ [][PathNext]_vars

---------------------------------------------------------------------------
(* MultiImageCompression of image_compression.py on one item: the engine
   (compress_image of the same file) followed by _shuffle_files *)

\* comp_paths[fl.name]['comp_fl']
comp_fl(src) == ExportArgPath(src, export_arg)

\* comp_paths[fl.name]['proc_fl']
proc_fl(src) == [src EXCEPT !.dir = "proc"]

\* MultiImageCompression.__init__ and set_dir have returned: the engine is
\* built with n_attemps=3 and the object's logger
MultiInit ==
    /\ variant = "legacy"
    /\ n_attempts = LegacyAttempts
    /\ to_jpg \in BOOLEAN
    /\ logger = TRUE
    /\ pc = "idle"
    /\ image_path = [dir |-> "src", suffix |-> ".jpg"]
    /\ export_arg = "False"
    /\ export_path = [dir |-> "src", suffix |-> ".jpg"]
    /\ fail_dir = FALSE
    /\ image_size = 0
    /\ image_wh = <<>>
    /\ force_compress = FALSE
    /\ size_ratio = 0
    /\ new_wh = <<>>
    /\ quality = 0
    /\ attempts = 0
    /\ new_image_size = 0
    /\ status = NotStarted
    /\ row = NoRow
    /\ exc = ""
    /\ fs = [p \in Paths |-> Absent]
    /\ encodes = 0
    /\ saves = 0
    /\ over = 0
    /\ readable = ""
    /\ last = NoAttempt
    /\ VideoOff
    /\ PathOff
    /\ SettingsOff
    /\ BatchOff
    /\ MangaOff
    /\ overwrite \in BOOLEAN
    /\ mpc = "idle"
    /\ mexc = ""

\* self.image_compressor.compress_image(fl, export_path=comp_fl, fail_dir=...)
\* up to the retry loop
compress_singlesubdir_images ==
    /\ mpc = "idle"
    /\ compress_image_legacy
    /\ export_arg' = (IF overwrite THEN "same" ELSE "other")
    /\ fail_dir'

\* _shuffle_files(compress_status, img_file, proc_file, compress_file) after
\* compress_image has returned
shuffle_files ==
    /\ mpc = "idle" /\ pc = "done"
    /\ IF status = _compressed /\ overwrite
       THEN LET f1 == [fs EXCEPT ![image_path] = Absent]
            IN  IF f1[comp_fl(image_path)] = Absent
                THEN /\ fs' = f1 /\ mpc' = "raised" /\ mexc' = "FileNotFoundError"
                ELSE /\ fs' = copy(f1, comp_fl(image_path), image_path)
                     /\ mpc' = "shuffled" /\ mexc' = ""
       ELSE /\ mpc' = "shuffled" /\ mexc' = ""
            /\ fs' = IF status = _compressed
                     THEN move(fs, image_path, proc_fl(image_path))
                     ELSE IF status = _not_compressed /\ ~overwrite
                     THEN move(fs, image_path, comp_fl(image_path))
                     ELSE fs
    /\ UNCHANGED <<variant, n_attempts, to_jpg, logger, pc, image_path, export_arg,
                   export_path, fail_dir, image_size, image_wh, force_compress,
                   size_ratio, new_wh, quality, attempts, new_image_size, status,
                   row, exc, encodes, saves, over, readable, last>>
    /\ UNCHANGED overwrite
    /\ UNCHANGED video_vars
    /\ UNCHANGED path_vars
    /\ UNCHANGED settings_vars
    /\ UNCHANGED <<batch_vars, manga_vars>>

MultiNext ==
    \/ compress_singlesubdir_images
    \/ attempt_compression_legacy
    \/ shuffle_files

SpecMulti == MultiInit /\ [][MultiNext]_vars

---------------------------------------------------------------------------
(* Properties *)

Called == pc /= "idle"
Finished == pc \in {"done", "raised"}
Produced == attempts >= 1 /\ last.ret = "size"

\* C1: in the classes variant, whenever the returned status is Compressed the
\* new size is strictly less than the source size; in particular an output
\* equal in size to the source is not reported as Compressed.
C1_CompressedIsSmaller ==
    (pc = "done" /\ variant = "classes" /\ status = _compressed)
        => new_image_size < image_size

\* C2: in the legacy variant, when the final attempt's output is not smaller
\* than the source, the status is 'NOT Compressed', the reported new size is
\* the source size and the export path holds a copy of the original bytes.
C2_NotSmallerIsNotCompressed ==
    (Finished /\ variant = "legacy" /\ Produced /\ last.size >= image_size)
        => /\ pc = "done"
           /\ status = _not_compressed
           /\ row.New_size = get_size_format(image_size)
           /\ fs[export_path] = Orig(image_size)

\* C3: a readable source below min_compress_size that is not force-converted
\* gets no encode call, is copied verbatim to the export path and is returned
\* as NOT Compressed with Attempts = 0 and the source size as new size; a
\* source of exactly min_compress_size bytes enters the retry loop.
C3_SkipSmall ==
    /\ (Called /\ readable = "ok" /\ image_size < min_compress_size /\ ~force_compress)
          => /\ pc = "done"
             /\ encodes = 0
             /\ fs[export_path] = Orig(image_size)
             /\ status = _not_compressed
             /\ row.Status = _not_compressed
             /\ row.Attempts = 0
             /\ row.New_size = get_size_format(image_size)
    /\ (Called /\ readable = "ok" /\ image_size = min_compress_size)
          => (pc = "loop" \/ encodes >= 1)

\* C4: when the corruption check fails the call returns Failed with
\* Attempts = 0, makes no encode call and writes nothing at the export path;
\* with a fail_dir the source is under fail_dir and no longer at its path,
\* without one the source stays where it was.
C4_DecodeFailure ==
    (Called /\ readable = "corrupt")
        => /\ pc = "done"
           /\ status = _failed
           /\ row = create_failed_stats(0)
           /\ encodes = 0
           /\ fs[export_path].kind /= "enc"
           /\ (export_path /= image_path => fs[export_path] = Absent)
           /\ (fail_dir => /\ fs[FailPath(image_path)] = Orig(image_size)
                           /\ fs[image_path] = Absent)
           /\ (~fail_dir => /\ fs[image_path] = Orig(image_size)
                            /\ fs[FailPath(image_path)] = Absent)

C4_Witness ==
    /\ pc = "done" /\ readable = "corrupt" /\ fail_dir
    /\ fs[FailPath(image_path)] = Orig(image_size)

\* C5: for both variants the number of encode calls for one item never
\* exceeds the configured n_attempts, the reported Attempts is the number of
\* encode calls made, and it lies in 1..n_attempts when the outcome is
\* Compressed.
C5_AttemptsBounded ==
    /\ encodes <= n_attempts
    /\ (pc = "done" => row.Attempts = encodes)
    /\ (pc = "done" /\ status = _compressed => row.Attempts \in 1..n_attempts)

\* C6: when all n_attempts encode calls succeeded and every output exceeded
\* AcceptSize, the call has returned, not Failed, with Attempts = n_attempts:
\* Compressed with the last attempt's size when that is smaller than the
\* source, NOT Compressed otherwise.
C6_PolicyExhaustion ==
    (encodes = n_attempts /\ over = n_attempts)
        => /\ pc = "done"
           /\ status /= _failed
           /\ row.Attempts = n_attempts
           /\ IF last.size < image_size
              THEN /\ status = _compressed
                   /\ new_image_size = last.size
                   /\ row.New_size = get_size_format(last.size)
              ELSE status = _not_compressed

\* C7: after an attempt whose output exceeds TightenSize, the attempt that
\* follows uses quality lower by 10 and a reduced ratio still in (0, 1], with
\* a re-derived width and height that are positive and not larger than the
\* original dimensions.
C7_TightenKeepsValid ==
    (pc = "loop" /\ Produced /\ last.size > TightenSize)
        => /\ quality = last.quality - QualityStep
           /\ size_ratio < last.size_ratio
           /\ size_ratio \in 1..10
           /\ new_wh /= <<>>
           /\ new_wh[1] \in 1..image_wh[1]
           /\ new_wh[2] \in 1..image_wh[2]

\* C8: after an attempt whose output size s has AcceptSize < s <= TightenSize,
\* the attempt that follows is made with quality lower by exactly 10 and with
\* the same ratio and the same width/height (or no-resize marker).
C8_QualityOnly ==
    [][(Produced /\ last.size > AcceptSize /\ last.size <= TightenSize
            /\ encodes' = encodes + 1)
        => /\ last'.quality = last.quality - QualityStep
           /\ last'.size_ratio = last.size_ratio
           /\ last'.wh = last.wh]_vars

C8_Witness ==
    /\ encodes = 2
    /\ last.quality = get_quality(image_size) - QualityStep
    /\ last.wh = get_new_width_height(variant, image_wh, <<>>).wh
    /\ last.wh /= <<>>
    /\ last.ret = "size"

C10_EncodeFailure ==
    attempts >= 1
        => /\ encodes = attempts
           /\ (last.s1 = "OSError" => saves = 2)
           /\ (last.s1 /= "OSError" => saves <= 1)
           /\ (((last.s1 = "OSError" /\ last.s2 = "OSError") \/ last.rz = "OSError")
                 => /\ pc = "done"
                    /\ status = _failed
                    /\ row.Status = _failed
                    /\ row.Attempts = attempts)

\* C11: whenever the call has returned Failed, no encoded output exists at
\* the export path, also when an earlier attempt of the item was written
\* and a later attempt failed.
C11_FailedLeavesNoArtifact ==
    (pc = "done" /\ status = _failed) => fs[export_path].kind /= "enc"

\* C12: for every combination of collaborator results the call returns
\* normally with a status among Compressed, NOT Compressed and Failed and a
\* populated row; no exception reaches the caller.
C12_NoExceptionEscapes ==
    Finished => /\ pc = "done"
                /\ status \in {_compressed, _not_compressed, _failed}
                /\ row /= NoRow

\* C17: a returned call yields one row, and a row whose Status is Failed has
\* the sentinel in Image_size, New_size and Compress, for decode failures and
\* for failures inside the retry loop.
C17_FailedRowSentinels ==
    pc = "done"
        => /\ row /= NoRow
           /\ (row.Status = _failed
                 => /\ row.Image_size = Dash
                    /\ row.New_size = Dash
                    /\ row.Compress = Dash)

\* C13 (as stated): the call never deletes or overwrites the source; unless
\* the corruption check failed, the source path holds the original bytes once
\* the call has ended, for every export_path argument, the omitted one
\* included, and every to_jpg setting.
C13_SourceNeverOverwritten ==
    (Finished /\ readable = "ok") => fs[image_path] = Orig(image_size)

\* C13 (amended): when the resolved export path is another path than the
\* source path, the source holds the original bytes at every point of the
\* call, except that a failed corruption check with a fail_dir relocates it
\* to fail_dir.
C13_SourceKeptWhenExportElsewhere ==
    (Called /\ export_path /= image_path)
        => IF readable = "corrupt" /\ fail_dir
           THEN /\ fs[image_path] = Absent
                /\ fs[FailPath(image_path)] = Orig(image_size)
           ELSE fs[image_path] = Orig(image_size)

C13_Witness ==
    /\ pc = "done" /\ status = _compressed
    /\ export_path /= image_path
    /\ fs[export_path] = Enc(new_image_size)
    /\ fs[image_path] = Orig(image_size)

\* C14: the item is force-converted exactly when to_jpg is active and the
\* source suffix, compared without regard to case, is neither .jpg nor .jpeg;
\* a readable force-converted source of any size, below min_compress_size
\* included, is not returned through the skip-small path and gets an encode
\* attempt; a readable source below min_compress_size that is not
\* force-converted gets none.
C14_ForceOverridesSkip ==
    Called
        => /\ force_compress
                = (to_jpg /\ image_path.suffix \notin {".jpg", ".JPG", ".jpeg"})
           /\ (readable = "ok" /\ force_compress)
                => (pc = "loop" \/ encodes >= 1)
           /\ (readable = "ok" /\ ~force_compress /\ image_size < min_compress_size)
                => (encodes = 0 /\ Finished)

C14_Witness ==
    /\ Finished /\ readable = "ok"
    /\ to_jpg /\ image_path.suffix = ".png"
    /\ image_size < min_compress_size
    /\ encodes >= 1

\* C15: the automatic ratio of get_new_width_height follows the tiers for
\* every width and height: 0.5 when the height or the width exceeds 3000 (a
\* wide image of height at most 1200 included), else 0.7 when the height
\* exceeds 1200, else 1.0 with the no-resize markers; the ratio is in (0, 1].
C15_RatioTiers ==
    pc \in {"fn_ratio", "fn_done"}
        => /\ size_ratio = (IF image_wh[2] > 3000 \/ image_wh[1] > 3000 THEN 5
                            ELSE IF image_wh[2] > 1200 THEN 7
                            ELSE 10)
           /\ (size_ratio = 10 => new_wh = <<>>)
           /\ size_ratio \in 1..10

\* C16: with quality 'auto' get_quality gives 70 above 10,000,000 bytes, 80
\* above 1,100,000 and up to 10,000,000, and 90 up to 1,100,000; the two
\* boundaries give 90 and 80; a larger size never gets a higher quality.
C16_QualityTiers ==
    pc = "fn_done"
        => /\ quality = (IF image_size > 10000000 THEN 70
                         ELSE IF image_size > 1100000 THEN 80
                         ELSE 90)
           /\ (image_size = 1100000 => quality = 90)
           /\ (image_size = 10000000 => quality = 80)
           /\ \A s \in FnSizes : s <= image_size => get_quality(s) >= quality

C16_Witness ==
    /\ pc = "fn_done"
    /\ image_size = 10000000
    /\ quality = 80

VideoEnded == vpc \in {"done", "raised"}

\* C18: convert_video makes at most two encode calls; the first has the scale
\* filter in the output settings when one was set; a second call is made
\* exactly when the first failed and a scale filter was set, and it is made
\* without the scale filter; the item is reported as not converted only after
\* that second call has failed as well.
C18_RetryWithoutScale ==
    VideoEnded
        => /\ Len(calls) \in 1..2
           /\ ("vf" \in calls[1].settings) = change_resolution
           /\ (Len(calls) = 2) = (~calls[1].ok /\ "vf" \in calls[1].settings)
           /\ (Len(calls) = 2 => "vf" \notin calls[2].settings)
           /\ ((~converted /\ "vf" \in calls[1].settings)
                 => (Len(calls) = 2 /\ ~calls[2].ok))

\* C19: once convert_video has ended after a successful encode: when the
\* converted file is larger than the source and keep_larger_video is false,
\* the converted file is no longer at video_out, unless force_mp4_output is
\* set and the source suffix is not .mp4 in any case; in every other case the
\* converted file is at video_out.
C19_AcceptanceRule ==
    (VideoEnded /\ converted)
        => IF /\ conv_size > file_size
              /\ ~keep_larger_video
              /\ ~(force_mp4_output = <<TRUE>> /\ video_in.suffix \notin {".mp4", ".MP4"})
           THEN vfs[video_out] /= Enc(conv_size)
           ELSE vfs[video_out] = Enc(conv_size)

\* C20: the target height is 720 for a source height of at least 1080, 480
\* for one of at least 480, and the source height below that, under policy
\* 'auto' in _set_video_settings and in both set_output_settings helpers;
\* 'keep' gives the source height, 'force_720' 720 and 'force_480' 480.
C20_TargetHeight ==
    LET auto == IF video_height >= 1080 THEN 720
                ELSE IF video_height >= 480 THEN 480
                ELSE video_height
        target == IF resolution_policy = "keep" THEN video_height
                  ELSE IF resolution_policy = "force_720" THEN 720
                  ELSE IF resolution_policy = "force_480" THEN 480
                  ELSE auto
    IN  vpc = "fn"
          => /\ (video_height_out /= 0 => video_height_out = target)
             /\ (vid_settings_utils /= 0 => vid_settings_utils = auto)
             /\ (vid_settings_legacy /= 0 => vid_settings_legacy = auto)

\* C30: whenever the encode of convert_video succeeded, the call completes
\* without raising, for every combination of the logic flags and source
\* suffix, also when _check_logic discarded the converted file; the recorded
\* conv_fl_size_bytes is the size of the file retained at the output path.
C30_ConvertedCompletes ==
    (VideoEnded /\ converted)
        => /\ vpc = "done"
           /\ vexc = ""
           /\ vfs[video_out] /= Absent
           /\ conv_fl_size_bytes = vfs[video_out].size

\* C25: the original video is moved to the processed folder or deleted only
\* when a valid output file was retained (the converted file at video_out, or
\* the original restored into the output location); when the converted file
\* was discarded without restoring the original, the original is untouched
\* at its path; when the encode failed the original is untouched.
C25_OriginalDisposition ==
    VideoEnded
        => /\ (~converted => vfs[video_in] = Orig(file_size))
           /\ (converted /\ vfs[video_in] /= Orig(file_size))
                => \/ vfs[video_out] = Enc(conv_size)
                   \/ vfs[with_suffix(video_out, video_in.suffix)] = Orig(file_size)
           /\ (converted /\ vfs[video_out] /= Enc(conv_size)
                         /\ ~copy_original_if_not_converted)
                => vfs[video_in] = Orig(file_size)

\* C28: the status tag returned next to the row equals the row's Status and
\* is one of Compressed, NOT Compressed and Failed on every exit path, the
\* one where opening the image raises an unidentified-image error after the
\* corruption check passed included.
C28_StatusMatchesRow ==
    pc = "done"
        => /\ row /= NoRow
           /\ row.Status = status
           /\ status \in {_compressed, _not_compressed, _failed}

\* C29: with to_jpg active, the file at the export path after a Compressed or
\* NOT Compressed outcome holds JPEG data: it is an encoded output, or the
\* bytes of a source that is itself a JPEG; a force-converted non-JPEG source
\* never ends up as its original bytes under the .jpg name.
C29_JpgPathHoldsJpeg ==
    (pc = "done" /\ to_jpg /\ status \in {_compressed, _not_compressed})
        => /\ export_path.suffix = ".jpg"
           /\ \/ fs[export_path].kind = "enc"
              \/ /\ fs[export_path].kind = "orig"
                 /\ image_path.suffix \in {".jpg", ".JPG", ".jpeg"}

\* C23: rename_dir(path, src, dst) returns the path in which every component
\* equal to src is replaced by dst and every other component is unchanged,
\* in the same order.
C23_RenameEveryComponent ==
    renamed /= <<>>
        => /\ renamed[1].ret = "path"
           /\ Len(renamed[1].parts) = Len(path)
           /\ \A i \in 1..Len(path) :
                renamed[1].parts[i]
                    = (IF path[i] = starting_dir THEN compress_dir ELSE path[i])

Shuffled == mpc \in {"shuffled", "raised"}

\* C24: with overwrite=True, after an item with outcome Compressed has been
\* compressed and shuffled the original file's path holds the compressed
\* image, and at every step of the engine and the shuffle the original bytes
\* or the compressed bytes exist on disk.
C24_OverwriteKeepsACopy ==
    overwrite
        => /\ (Shuffled /\ status = _compressed)
                => (mpc = "shuffled" /\ fs[image_path].kind = "enc")
           /\ Called => \E p \in Paths : fs[p].kind \in {"orig", "enc"}

\* C26: without overwrite, after an item with outcome Compressed or NOT
\* Compressed has been compressed and shuffled, the original bytes are in the
\* processed or the compressed tree, the source directory no longer holds
\* the item, and the compressed tree holds exactly one file, not larger than
\* the original; for outcome Failed the shuffle moves nothing.
C26_ShuffleLayout ==
    /\ [](  (~overwrite /\ Shuffled /\ status \in {_compressed, _not_compressed})
              => /\ mpc = "shuffled"
                 /\ \E p \in Paths : p.dir \in {"proc", "out"} /\ fs[p] = Orig(image_size)
                 /\ \A p \in Paths : p.dir = "src" => fs[p] = Absent
                 /\ Cardinality({p \in Paths : p.dir = "out" /\ fs[p] /= Absent}) = 1
                 /\ \A p \in Paths : p.dir = "out" => fs[p].size <= image_size)
    /\ [][(~overwrite /\ status = _failed /\ mpc = "idle" /\ mpc' /= "idle")
            => fs' = fs]_vars

---------------------------------------------------------------------------
(* VideoCompress._set_audio_settings on its own: the audio policy and the
   audio metadata are drawn at Init, out_settings holds what
   _set_output_settings has put there before the call *)

AudioPolicies == {"auto", "force_aac", "copy"}
NoAudio == [stream |-> FALSE, bit_rate |-> <<>>, codec_name |-> ""]
FnAudioMetas ==
    [stream : {TRUE},
     bit_rate : {<<>>, <<64000>>, <<96000>>, <<128000>>, <<128001>>, <<320000>>},
     codec_name : {"aac", "mp3", "ac3"}] \cup {NoAudio}

\* set_defaults: video_defaults["crf"], video_defaults["preset"]
quality_defaults(video_quality) ==
    IF video_quality = "high" THEN [crf |-> 18, preset |-> "slow"]
    ELSE IF video_quality = "fast" THEN [crf |-> 22, preset |-> "fast"]
    ELSE [crf |-> 20, preset |-> "medium"]

\* out_settings['c:a'] = 'aac'; out_settings['b:a'] = '96K'
aac_96K(out) == [out EXCEPT !.ca = "aac", !.ba = "96K"]

\* _set_audio_settings on out_settings values out: the values it leaves and
\* the exception it raised ("" if none); ca = "" is a missing 'c:a' key
_set_audio_settings(policy, meta, out) ==
    IF policy = "auto"
    THEN IF ~meta.stream THEN [out |-> out, exc |-> "KeyError"]
         ELSE IF meta.bit_rate /= <<>>
         THEN [out |-> IF meta.bit_rate[1] > 128000 THEN aac_96K(out) ELSE out,
               exc |-> ""]
         ELSE IF meta.codec_name = "aac"
         THEN [out |-> [out EXCEPT !.ca = "copy"], exc |-> ""]
         ELSE [out |-> aac_96K(out), exc |-> ""]
    ELSE IF policy = "force_aac"
    THEN [out |-> aac_96K(out), exc |-> ""]
    ELSE IF policy = "copy"
    THEN IF ~meta.stream THEN [out |-> out, exc |-> "KeyError"]
         ELSE IF meta.codec_name = "aac"
         THEN [out |-> [out EXCEPT !.ca = "copy"], exc |-> ""]
         ELSE [out |-> aac_96K(out), exc |-> ""]
    ELSE [out |-> out, exc |-> ""]

\* out_settings after the four default assignments of _set_output_settings
default_values(defaults) ==
    [crf |-> defaults.crf, preset |-> defaults.preset, ca |-> "", ba |-> "", vf |-> 0]

AudioFnInit ==
    /\ ImageOff
    /\ vpc = "fn"
    /\ video_in = [dir |-> "in", suffix |-> ".mp4"]
    /\ video_out = [dir |-> "out", suffix |-> ".mp4"]
    /\ video_height = 0
    /\ file_size = 0
    /\ resolution_policy = "auto"
    /\ change_resolution = FALSE
    /\ out_settings = {}
    /\ video_height_out = 0
    /\ keep_larger_video = FALSE
    /\ delete_original = FALSE
    /\ move_original = FALSE
    /\ copy_original_if_not_converted = FALSE
    /\ force_mp4_output = <<>>
    /\ converted = FALSE
    /\ conv_fl_size_bytes = 0
    /\ calls = <<>>
    /\ conv_size = 0
    /\ vfs = [p \in VideoPaths |-> Absent]
    /\ vexc = ""
    /\ vid_settings_utils = 0
    /\ vid_settings_legacy = 0
    /\ PathOff
    /\ MultiOff
    /\ BatchOff
    /\ MangaOff
    /\ audio_policy \in AudioPolicies
    /\ meta_audio \in FnAudioMetas
    /\ video_defaults = quality_defaults("standard")
    /\ out_values = default_values(video_defaults)
    /\ mvc = [video_quality |-> "", audio_policy |-> "", resolution_policy |-> "",
              force_mp4_output |-> <<>>, keep_larger_video |-> <<>>]

\* self._set_audio_settings()
call_set_audio_settings ==
    /\ vpc = "fn"
    /\ LET r == _set_audio_settings(audio_policy, meta_audio, out_values)
       IN  /\ out_values' = r.out
           /\ vexc' = r.exc
           /\ vpc' = IF r.exc = "" THEN "done" ELSE "raised"
    /\ UNCHANGED <<video_in, video_out, video_height, file_size, resolution_policy,
                   change_resolution, out_settings, video_height_out,
                   keep_larger_video, delete_original, move_original,
                   copy_original_if_not_converted, force_mp4_output, converted,
                   conv_fl_size_bytes, calls, conv_size, vfs,
                   vid_settings_utils, vid_settings_legacy>>
    /\ UNCHANGED <<audio_policy, meta_audio, video_defaults, mvc>>
    /\ UNCHANGED image_vars
    /\ UNCHANGED path_vars
    /\ UNCHANGED multi_vars
    /\ UNCHANGED <<batch_vars, manga_vars>>

AudioFnNext ==
    \/ call_set_audio_settings

SpecAudioFn == AudioFnInit /\ [][AudioFnNext]_vars

\* C22: _set_audio_settings: under 'auto' audio above 128,000 bit/s becomes
\* AAC 96K and AAC audio not above 128,000 is stream-copied; under
\* 'force_aac' the audio always becomes AAC 96K; under 'copy' AAC audio is
\* copied and other audio becomes AAC 96K; for every policy and source the
\* settings end up with a 'c:a' entry (sources that have an audio stream)
C22_AudioPolicy ==
    ((vpc = "done" \/ vpc = "raised") /\ meta_audio.stream)
        => LET above == meta_audio.bit_rate /= <<>> /\ meta_audio.bit_rate[1] > 128000
               is_aac == meta_audio.codec_name = "aac"
               reencoded == out_values.ca = "aac" /\ out_values.ba = "96K"
               copied == out_values.ca = "copy"
           IN  /\ vexc = ""
               /\ out_values.ca /= ""
               /\ (audio_policy = "auto" /\ above) => reencoded
               /\ (audio_policy = "auto" /\ ~above /\ is_aac) => copied
               /\ audio_policy = "force_aac" => reencoded
               /\ (audio_policy = "copy" /\ is_aac) => copied
               /\ (audio_policy = "copy" /\ ~is_aac) => reencoded

---------------------------------------------------------------------------
(* MultiVideoCompress: update_defaults, then video_convert, which builds a
   VideoCompress, calls update_logic and set_defaults on it and then
   convert_video *)

VideoQualities == {"standard", "high", "fast"}
AudioMetas ==
    {[stream |-> TRUE, bit_rate |-> <<>>, codec_name |-> "aac"],
     [stream |-> TRUE, bit_rate |-> <<96000>>, codec_name |-> "aac"],
     [stream |-> TRUE, bit_rate |-> <<320000>>, codec_name |-> "mp3"],
     NoAudio}
BatchSuffixes == {".mp4", ".avi"}

\* the values _set_output_settings leaves in out_settings (scale 'auto',
\* change_resolution True) and the exception it raised ("" if none)
output_values(defaults, a_policy, r_policy, height, meta) ==
    LET audio == _set_audio_settings(a_policy, meta, default_values(defaults))
        convert_to == set_video_settings(r_policy, height)
        crf == IF r_policy \notin {"keep", "force_720", "force_480"} /\ height >= 1080
               THEN defaults.crf ELSE audio.out.crf
    IN  IF audio.exc /= "" THEN audio
        ELSE [out |-> [audio.out EXCEPT !.crf = crf, !.vf = convert_to], exc |-> ""]

\* MultiVideoCompress.__init__ has returned: force_mp4_output and
\* keep_larger_video do not exist yet
MultiVideoInit ==
    /\ ImageOff
    /\ VideoOff
    /\ PathOff
    /\ MultiOff
    /\ BatchOff
    /\ MangaOff
    /\ audio_policy = "auto"
    /\ meta_audio = NoAudio
    /\ video_defaults = [crf |-> 0, preset |-> ""]
    /\ out_values = [crf |-> 0, preset |-> "", ca |-> "", ba |-> "", vf |-> 0]
    /\ mvc = [video_quality |-> "standard", audio_policy |-> "auto",
              resolution_policy |-> "auto",
              force_mp4_output |-> <<>>, keep_larger_video |-> <<>>]

\* update_defaults(video_quality, audio_policy, resolution_policy), between
\* two video_convert calls
update_defaults ==
    /\ vpc /= "new"
    /\ \E q \in VideoQualities, a \in AudioPolicies, r \in Policies :
        mvc' = [video_quality |-> q, audio_policy |-> a, resolution_policy |-> r,
                force_mp4_output |-> <<TRUE>>, keep_larger_video |-> <<FALSE>>]
    /\ UNCHANGED <<audio_policy, meta_audio, video_defaults, out_values>>
    /\ UNCHANGED video_vars
    /\ UNCHANGED image_vars
    /\ UNCHANGED path_vars
    /\ UNCHANGED multi_vars
    /\ UNCHANGED <<batch_vars, manga_vars>>

\* video_convert(video_in, video_out, proc_dir) up to the convert_video call
video_convert ==
    /\ vpc \in {"off", "done", "raised"}
    /\ \E suffix \in BatchSuffixes, height \in VideoHeights, meta \in AudioMetas :
        LET standard == quality_defaults("standard")
            built == output_values(standard, "auto", "auto", height, meta)
            unset == mvc.keep_larger_video = <<>> \/ mvc.force_mp4_output = <<>>
            failed == built.exc /= "" \/ unset
        IN  /\ video_in' = [dir |-> "in", suffix |-> suffix]
            /\ video_out' = [dir |-> "out", suffix |-> ".mp4"]
            /\ video_height' = height
            /\ meta_audio' = meta
            /\ file_size' = VideoFileSize
            /\ change_resolution' = TRUE
            /\ vfs' = [p \in VideoPaths |->
                          IF p = video_in' THEN Orig(VideoFileSize) ELSE Absent]
            /\ out_values' = built.out
            /\ out_settings' = IF built.exc /= ""
                               THEN OutputSettings(FALSE) ELSE OutputSettings(TRUE)
            /\ video_height_out' = IF built.exc /= "" THEN 0
                                   ELSE set_video_settings("auto", height)
            /\ vexc' = IF built.exc /= "" THEN built.exc
                       ELSE IF unset THEN "AttributeError" ELSE ""
            /\ vpc' = IF failed THEN "raised" ELSE "new"
            /\ keep_larger_video' = IF failed THEN FALSE ELSE mvc.keep_larger_video[1]
            /\ delete_original' = ~failed
            /\ copy_original_if_not_converted' = ~failed
            /\ move_original' = ~failed
            /\ force_mp4_output' = IF failed THEN <<>> ELSE mvc.force_mp4_output
            /\ video_defaults' = IF failed THEN standard
                                 ELSE quality_defaults(mvc.video_quality)
            /\ audio_policy' = IF failed THEN "auto" ELSE mvc.audio_policy
            /\ resolution_policy' = IF failed THEN "auto" ELSE mvc.resolution_policy
    /\ converted' = FALSE
    /\ conv_fl_size_bytes' = 0
    /\ calls' = <<>>
    /\ conv_size' = 0
    /\ UNCHANGED <<vid_settings_utils, vid_settings_legacy>>
    /\ UNCHANGED mvc
    /\ UNCHANGED image_vars
    /\ UNCHANGED path_vars
    /\ UNCHANGED multi_vars
    /\ UNCHANGED <<batch_vars, manga_vars>>

MultiVideoNext ==
    \/ update_defaults
    \/ video_convert
    \/ convert_video

SpecMultiVideo == MultiVideoInit /\ [][MultiVideoNext]_vars

\* C21: after update_defaults(q, a, r) the VideoCompress that video_convert
\* builds carries q, a and r, and the settings its encode call uses (CRF and
\* preset, audio codec and bitrate, scale height) are the ones derived from
\* them
C21_ConfiguredPoliciesUsed ==
    /\ vpc = "new"
          => /\ video_defaults = quality_defaults(mvc.video_quality)
             /\ audio_policy = mvc.audio_policy
             /\ resolution_policy = mvc.resolution_policy
    /\ calls /= <<>>
          => out_values = output_values(video_defaults, audio_policy,
                                        resolution_policy, video_height,
                                        meta_audio).out

---------------------------------------------------------------------------
(* MultiImageCompression.compress_files of image_compression_classes.py over
   a directory tree.  Directory 1 is starting_dir; every image file gives
   one stats row <<d, k>> (file k of directory d) *)

MaxDirs == 3                \* most directories in the tree
MaxFiles == 2               \* most image files in one directory

Trees ==
    UNION {{t \in [1..n -> [parent : 0..(n - 1), files : 0..MaxFiles]] :
                /\ t[1].parent = 0
                /\ \A d \in 2..n : t[d].parent \in 1..(d - 1)} : n \in 1..MaxDirs}

StaleRow == <<0, 0>>        \* a row a previous run left in the stats file

\* _compress_singlesubdir_images(files, subdir): one row per file
compress_singlesubdir_rows(d) == [k \in 1..tree[d].files |-> <<d, k>>]

\* compress_stats.to_csv(stats_fl, mode='a' if exists else 'w', ...)
to_csv(csv, rows) ==
    [exists |-> TRUE, rows |-> IF csv.exists THEN csv.rows \o rows ELSE rows]

RECURSIVE _compress_files_subdir(_, _)
RECURSIVE sub_directories(_, _, _)

\* the loop over sub_directories of d, from directory c on; acc is
\* [rows, n, csv]: the rows and the length of the compress_stats list and
\* the stats file so far
sub_directories(d, c, acc) ==
    IF c > Len(tree) THEN acc
    ELSE IF tree[c].parent /= d THEN sub_directories(d, c + 1, acc)
    ELSE LET cs == _compress_files_subdir(c, acc.csv)
         IN  sub_directories(d, c + 1,
                 [rows |-> acc.rows \o cs.rows, n |-> acc.n + 1, csv |-> cs.csv])

\* _compress_files_subdir(subdir) with the stats file csv: the rows of the
\* DataFrame it returns and the stats file it leaves
_compress_files_subdir(d, csv) ==
    LET own == IF tree[d].files > 0
               THEN [rows |-> compress_singlesubdir_rows(d), n |-> 1, csv |-> csv]
               ELSE [rows |-> <<>>, n |-> 0, csv |-> csv]
        all == sub_directories(d, d + 1, own)
    IN  IF all.n > 0
        THEN [rows |-> all.rows, csv |-> to_csv(all.csv, all.rows)]
        ELSE [rows |-> <<>>, csv |-> all.csv]

\* MultiImageCompression.__init__ has returned, file_manager is None; the
\* stats file may be there from an earlier run
BatchInit ==
    /\ ImageOff
    /\ VideoOff
    /\ PathOff
    /\ MultiOff
    /\ SettingsOff
    /\ MangaOff
    /\ tree \in Trees
    /\ stats_fl \in {[exists |-> FALSE, rows |-> <<>>],
                     [exists |-> TRUE, rows |-> <<StaleRow>>]}
    /\ compress_stats = <<>>
    /\ bpc = "new"
    /\ bexc = ""
    /\ file_ops = {}

\* set_dir(starting_dir): self.file_manager = CompressionFileManager(...)
set_dir ==
    /\ bpc = "new"
    /\ bpc' = "idle"
    /\ UNCHANGED <<tree, stats_fl, compress_stats, bexc, file_ops>>
    /\ UNCHANGED image_vars
    /\ UNCHANGED video_vars
    /\ UNCHANGED path_vars
    /\ UNCHANGED multi_vars
    /\ UNCHANGED <<settings_vars, manga_vars>>

\* the file operations of a run that found the stats file csv and left r
run_file_ops(csv, r) ==
    (IF csv.exists THEN {"unlink"} ELSE {})
        \cup (IF r.rows /= <<>> THEN {"mkdir", "compress_image"} ELSE {})
        \cup (IF r.csv.exists THEN {"to_csv"} ELSE {})

\* a compress_files that deletes the stats file before it looks at
\* file_manager
compress_files_unlink_first ==
    /\ bpc \in {"new", "idle"}
    /\ IF bpc = "new"
       THEN /\ bpc' = "raised" /\ bexc' = "ValueError"
            /\ stats_fl' = [exists |-> FALSE, rows |-> <<>>]
            /\ file_ops' = IF stats_fl.exists THEN {"unlink"} ELSE {}
            /\ UNCHANGED compress_stats
       ELSE LET r == _compress_files_subdir(1, [exists |-> FALSE, rows |-> <<>>])
            IN  /\ compress_stats' = r.rows
                /\ stats_fl' = r.csv
                /\ file_ops' = run_file_ops(stats_fl, r)
                /\ bpc' = "done" /\ bexc' = ""
    /\ UNCHANGED tree
    /\ UNCHANGED image_vars
    /\ UNCHANGED video_vars
    /\ UNCHANGED path_vars
    /\ UNCHANGED multi_vars
    /\ UNCHANGED <<settings_vars, manga_vars>>

\* compress_files(): ValueError while file_manager is None; else unlink an
\* existing stats file, then
\* self.compress_stats = self._compress_files_subdir(starting_dir)
compress_files ==
    /\ bpc \in {"new", "idle"}
    /\ IF bpc = "new"
       THEN /\ bpc' = "raised" /\ bexc' = "ValueError"
            /\ UNCHANGED <<stats_fl, compress_stats, file_ops>>
       ELSE LET r == _compress_files_subdir(1, [exists |-> FALSE, rows |-> <<>>])
            IN  /\ compress_stats' = r.rows
                /\ stats_fl' = r.csv
                /\ file_ops' = run_file_ops(stats_fl, r)
                /\ bpc' = "done" /\ bexc' = ""
    /\ UNCHANGED tree
    /\ UNCHANGED image_vars
    /\ UNCHANGED video_vars
    /\ UNCHANGED path_vars
    /\ UNCHANGED multi_vars
    /\ UNCHANGED <<settings_vars, manga_vars>>

BatchNext ==
    \/ set_dir
    \/ compress_files

SpecBatch == BatchInit /\ [][BatchNext]_vars

\* number of times row r is in rows
Count(rows, r) == Cardinality({i \in 1..Len(rows) : rows[i] = r})

\* the rows of all image files of the tree
FileRows ==
    {r \in (1..MaxDirs) \X (1..MaxFiles) :
        r[1] <= Len(tree) /\ r[2] <= tree[r[1]].files}

\* C27: after compress_files the stats CSV holds exactly one row per
\* processed image file and nothing else, the same rows as the returned
\* DataFrame
C27_OneRowPerFile ==
    bpc = "done"
        => /\ \A r \in FileRows : Count(stats_fl.rows, r) = 1
           /\ \A i \in 1..Len(stats_fl.rows) : stats_fl.rows[i] \in FileRows
           /\ \A r \in FileRows : Count(compress_stats, r) = Count(stats_fl.rows, r)
           /\ Len(stats_fl.rows) = Len(compress_stats)

\* the call runs with the default maximum of attempts
DefaultAttempts == variant = "legacy" \/ n_attempts = default_n_attempts

\* the last encode call's output exceeded AcceptSize
LastOver == last.ret = "size" /\ last.size > AcceptSize

\* C31: with quality 'auto' and at most 3 attempts, the quality of every
\* encode call is one of 50, 60, 70, 80, 90, never rises from one attempt to
\* the next, and is the seed quality minus 10 for every earlier attempt of the
\* item whose output exceeded 2,000,000 bytes
C31_QualitySchedule ==
    /\ []((DefaultAttempts /\ encodes >= 1)
            => /\ last.quality \in {50, 60, 70, 80, 90}
               /\ last.quality = get_quality(image_size)
                                   - QualityStep * (over - (IF LastOver THEN 1 ELSE 0)))
    /\ [][(DefaultAttempts /\ encodes >= 1 /\ encodes' > encodes)
            => last'.quality <= last.quality]_vars

\* a third encode call made at quality 50, after two attempts above 5,000,000
C31_Witness ==
    /\ DefaultAttempts /\ encodes = 3 /\ over >= 2
    /\ last.quality = 50
    /\ size_ratio < get_new_width_height(variant, image_wh, <<>>).size_ratio

---------------------------------------------------------------------------
(* compress_image under progress: every call the engine makes is synchronous
   and comes back, so a step that is possible is eventually taken *)

SpecLive == Init /\ [][Next]_vars /\ WF_vars(Next)

\* no decode, resize, save or copy call of the item raised
CallsReturned ==
    /\ exc = ""
    /\ readable /= "unidentified"
    /\ last.rz \in {"", "ok"}
    /\ last.s1 \in {"", "ok"}

\* C32: every call of compress_image ends, and when every decode, resize,
\* save, copy and move call returned it ends with Compressed, NOT Compressed
\* or Failed after at most n_attempts encode calls
C32_Terminates ==
    /\ <>Finished
    /\ []((Finished /\ CallsReturned)
            => /\ pc = "done"
               /\ status \in {_compressed, _not_compressed, _failed}
               /\ encodes <= n_attempts)

\* C33: compress_files called before set_dir raises ValueError and makes no
\* file operation: the stats file, the tree and the returned rows are as they
\* were
C33_NoSetDirNoFileOps ==
    /\ [](bpc = "raised" => (bexc = "ValueError" /\ file_ops = {}))
    /\ [][(bpc = "new" /\ bpc' /= "new" /\ bpc' /= "idle")
            => /\ bpc' = "raised"
               /\ stats_fl' = stats_fl
               /\ tree' = tree
               /\ compress_stats' = compress_stats]_vars

\* the call was refused on a tree that holds images, with a stats file of an
\* earlier run still in place
C33_Witness ==
    /\ bpc = "raised" /\ bexc = "ValueError"
    /\ stats_fl = [exists |-> TRUE, rows |-> <<StaleRow>>]
    /\ FileRows /= {}

---------------------------------------------------------------------------
(* get_new_width_height on dimensions of either sign, as inverted metadata
   gives them *)

SignedWidths == {-4000, -2000, 800, 4000}
SignedHeights == {-4000, -2000, -600, 600, 2000, 4000}

FnSignedInit ==
    /\ variant \in Variants
    /\ n_attempts = 1
    /\ to_jpg = FALSE
    /\ logger = FALSE
    /\ pc = "fn"
    /\ image_path = [dir |-> "src", suffix |-> ".jpg"]
    /\ export_arg = "False"
    /\ export_path = [dir |-> "src", suffix |-> ".jpg"]
    /\ fail_dir = FALSE
    /\ image_size = min_compress_size
    /\ image_wh \in SignedWidths \X SignedHeights
    /\ force_compress = FALSE
    /\ size_ratio = 0
    /\ new_wh = <<>>
    /\ quality = 0
    /\ attempts = 0
    /\ new_image_size = 0
    /\ status = NotStarted
    /\ row = NoRow
    /\ exc = ""
    /\ fs = [p \in Paths |-> Absent]
    /\ encodes = 0
    /\ saves = 0
    /\ over = 0
    /\ readable = ""
    /\ last = NoAttempt
    /\ VideoOff
    /\ ExtraOff

SpecFnSigned == FnSignedInit /\ [][FnNext]_vars

\* C34: get_new_width_height gives for (w, h) the ratio and the derived
\* width and height it gives for (|w|, |h|), and with the automatic ratio a
\* derived width or height is never negative, in both variants
C34_NegativeNormalized ==
    pc \in {"fn_ratio", "fn_done"}
        => LET m == get_new_width_height(variant,
                                         <<Abs(image_wh[1]), Abs(image_wh[2])>>, <<>>)
           IN  /\ size_ratio = m.size_ratio
               /\ new_wh = m.wh
               /\ new_wh /= <<>> => (new_wh[1] >= 0 /\ new_wh[2] >= 0)

---------------------------------------------------------------------------
(* MangaCompress.compress_manga_images (manga_compression.py): the archive
   is extracted into a temporary unzip directory, the image batch writes
   into a temporary compress directory, failed images are copied to the
   error directory, what the batch left is moved over, and the compress
   directory is zipped *)

MaxArchive == 3

Stems == {"a", "b"}

MangaSuffixes == {".jpg", ".png", ".txt"}

\* "" is the root of the archive
SubDirs == {"", "s"}

ArchiveFiles == [sub : SubDirs, stem : Stems, suffix : MangaSuffixes]

Archives == {a \in SUBSET ArchiveFiles : Cardinality(a) <= MaxArchive}

\* img_suffixes=['.jpg', 'jpeg', '.png'] of MultiImageCompression.__init__
img_suffixes == {".jpg", "jpeg", ".png"}

IsImage(f) == f.suffix \in img_suffixes

\* Path.glob and Path.rglob give the files of a directory before those of
\* its subdirectories are reached by the recursion
Rank(f) ==
    (IF f.sub = "" THEN 0 ELSE 6) + (IF f.stem = "a" THEN 0 ELSE 3)
        + (CASE f.suffix = ".jpg" -> 0 [] f.suffix = ".png" -> 1 [] OTHER -> 2)

First(S) == CHOOSE f \in S : \A g \in S : Rank(f) <= Rank(g)

\* what compress_image and _shuffle_files can do with one image: the skip of
\* a small file needs force_compress False, which a .png never has
EngineOutcomes(f) ==
    IF f.suffix = ".jpg"
    THEN {_compressed, _not_compressed, _failed, "corrupt"}
    ELSE {_compressed, _failed, "corrupt"}

\* a file written at path p with the data of extracted file d
Write(files, p, d) == {e \in files : e.path /= p} \cup {[path |-> p, data |-> d]}

\* whose data the write destroys
Clobber(files, p, d) == {e.data : e \in {x \in files : x.path = p /\ x.data /= d}}

\* one image through compress_image(fl, export_path=comp_fl, fail_dir=...) and
\* _shuffle_files with overwrite False, to_jpg True, processed_dir the unzip
\* directory itself
compress_one(st, f, o) ==
    LET exp == [sub |-> f.sub, stem |-> f.stem, suffix |-> ".jpg"]
        r   == [image |-> f, status |-> IF o = "corrupt" THEN _failed ELSE o]
    IN  CASE o = _compressed ->
                [st EXCEPT !.stats = @ \cup {r},
                           !.dst = Write(@, exp, f),
                           !.clob = @ \cup Clobber(st.dst, exp, f)]
          [] o = _not_compressed ->
                [st EXCEPT !.stats = @ \cup {r},
                           !.dst = Write(Write(@, exp, f), f, f),
                           !.clob = @ \cup Clobber(st.dst, exp, f) \cup Clobber(st.dst, f, f),
                           !.unzip = @ \ {f}]
          [] o = "corrupt" ->
                [st EXCEPT !.stats = @ \cup {r}, !.unzip = @ \ {f}]
          [] OTHER ->
                [st EXCEPT !.stats = @ \cup {r}]

RECURSIVE compress_all(_, _, _)
compress_all(st, todo, o) ==
    IF todo = {} THEN st
    ELSE LET f == First(todo)
         IN  compress_all(compress_one(st, f, o[f]), todo \ {f}, o)

\* _copy_failed_files with a batch that were given stats_fl False
RECURSIVE copy_failed(_, _)
copy_failed(st, todo) ==
    IF todo = {} THEN st
    ELSE LET f == First(todo)
             p == [sub |-> "", stem |-> f.stem, suffix |-> f.suffix]
         IN  IF f \notin st.unzip
             THEN [st EXCEPT !.exc = "FileNotFoundError"]
             ELSE copy_failed([st EXCEPT !.err = Write(@, p, f)], todo \ {f})

_copy_failed_files(st) ==
    IF st.stats = {}
    THEN [st EXCEPT !.exc = "KeyError"]
    ELSE copy_failed(st, {r.image : r \in {x \in st.stats : x.status = _failed}})

\* the loop of _shutil_uncompressed_files over src_files
RECURSIVE move_uncompressed(_, _, _)
move_uncompressed(st, todo, dst_files_stems) ==
    IF todo = {} THEN st
    ELSE LET f == First(todo)
             p == [sub |-> "", stem |-> f.stem, suffix |-> f.suffix]
         IN  IF f.stem \notin dst_files_stems
             THEN move_uncompressed([st EXCEPT !.dst = Write(@, p, f),
                                               !.clob = @ \cup Clobber(st.dst, p, f),
                                               !.unzip = @ \ {f}],
                                    todo \ {f}, dst_files_stems)
             ELSE move_uncompressed(st, todo \ {f}, dst_files_stems)

_shutil_uncompressed_files(st) ==
    move_uncompressed(st, st.unzip, {e.path.stem : e \in st.dst})

\* MangaCompress.set_directories has returned, the archive holds `extracted`
MangaInit ==
    /\ ImageOff
    /\ VideoOff
    /\ PathOff
    /\ MultiOff
    /\ SettingsOff
    /\ BatchOff
    /\ tmp_single \in BOOLEAN
    /\ extracted \in Archives
    /\ outcomes = <<>>
    /\ ic_stats = {}
    /\ unzip_files = {}
    /\ dst_files = {}
    /\ error_files = {}
    /\ clobbered = {}
    /\ gpc = "new"
    /\ gexc = ""

Images == {f \in extracted : IsImage(f)}

compress_manga_images ==
    /\ gpc = "new"
    /\ \E o \in [Images -> {_compressed, _not_compressed, _failed, "corrupt"}] :
          /\ \A f \in Images : o[f] \in EngineOutcomes(f)
          /\ LET s0 == [unzip |-> extracted, dst |-> {}, err |-> {}, stats |-> {},
                        clob |-> {}, exc |-> ""]
                 \* rename_dir in _get_compress_paths: list.index raises when
                 \* no single component of the path is str(starting_dir)
                 s1 == IF Images /= {} /\ ~tmp_single
                       THEN [s0 EXCEPT !.exc = "ValueError"]
                       ELSE compress_all(s0, Images, o)
                 s2 == IF s1.exc /= "" THEN s1 ELSE _copy_failed_files(s1)
                 s3 == IF s2.exc /= "" THEN s2 ELSE _shutil_uncompressed_files(s2)
             IN  /\ outcomes' = (IF s1.exc = "" THEN o ELSE <<>>)
                 /\ ic_stats' = s3.stats
                 /\ unzip_files' = s3.unzip
                 /\ dst_files' = s3.dst
                 /\ error_files' = s3.err
                 /\ clobbered' = s3.clob
                 /\ gexc' = s3.exc
                 /\ gpc' = (IF s3.exc = "" THEN "zipped" ELSE "raised")
    /\ UNCHANGED <<tmp_single, extracted>>
    /\ UNCHANGED <<image_vars, video_vars, path_vars, multi_vars, settings_vars, batch_vars>>

MangaNext == compress_manga_images

SpecManga == MangaInit /\ [][MangaNext]_vars

\* the image batch returned
BatchRan == gpc \in {"zipped", "raised"} /\ gexc /= "ValueError"

FailedImages == {r.image : r \in {x \in ic_stats : x.status = _failed}}

\* C35: after the image batch has run, _copy_failed_files raises nothing and
\* every image whose row has Status Failed has a copy under the error
\* directory, the images the engine moved to its failure directory included
C35_FailedCopied ==
    (BatchRan /\ Images /= {})
        => /\ gexc = ""
           /\ \A f \in FailedImages : \E e \in error_files : e.data = f

\* C36: when the compress directory is zipped, every extracted file has a
\* file of its stem there, and no extracted file's data was overwritten by
\* another extracted file's
C36_AllRepresented ==
    gpc = "zipped"
        => /\ \A f \in extracted : \E e \in dst_files : e.path.stem = f.stem
           /\ clobbered = {}

====
